---- MODULE Spec2Model ----
(***************************************************************************)
(* Resource-manager simulation of src/Manager.py: tasks execute scripted   *)
(* initiate / request / release instructions against finite resource      *)
(* pools under a logical clock, with an optimistic policy (grant when      *)
(* available, abort on deadlock) and a Banker policy (isSafe is a stub).   *)
(*                                                                         *)
(* Manager.py is the only source file.  The classes Task, Resource and     *)
(* Instruction it imports are not part of src/; their methods are modelled *)
(* from the specification (sections 3, 4.1, 4.2, 7) and carry the source   *)
(* method names.  Manager.py is Python 2 (file(...) at line 269), where    *)
(* dict.keys() / values() return lists, so deleting while iterating is     *)
(* legal and tasks (int keys 1..n) are visited in ascending id order.      *)
(*                                                                         *)
(* The program of a task is read one instruction at a time: the engine     *)
(* never looks past the current instruction, so the instruction at a       *)
(* position is drawn from the input alphabet when it is first dispatched   *)
(* (cur[t] = NoIns until then).  While an instruction is delayed only its  *)
(* delay is read (execute returns at line 196), so only the delay is kept  *)
(* until it reaches 0.  Whether the program ends after an instruction is   *)
(* read when the program counter advances (parameter fin).                 *)
(***************************************************************************)
EXTENDS Integers, Sequences, FiniteSets

\* ---------------------------------------------------------------- bounds
MaxLen == 3
MaxTotal == 2
MaxUnits == 2
MaxDelay == 1
MaxClock == 3
\* Number of resource types a run may declare (outline[1]); under BANKER,
\* where every task also carries a claim per resource, fewer are explored
NumResources == 2
BankerResources == 1

Tasks == {1, 2}

\* The resource ids an instruction may name; those a run does not declare
\* are unknown to it
ResourceIds == 1..NumResources

\* ManagerType (Manager.py:25-30)
OPTIMISTIC == 1
BANKER == 2

Commands == {"initiate", "request", "release"}

Instr ==
  [command : Commands, delay : 0..MaxDelay,
   resourceType : ResourceIds, numUnits : 1..MaxUnits]

NoIns == [command |-> "none", delay |-> 0, resourceType |-> 0, numUnits |-> 0]

\* A delayed instruction of which only the remaining delay has been read
Pending(d) == [command |-> "pending", delay |-> d, resourceType |-> 0, numUnits |-> 0]

Ins(c, r, n) == [command |-> c, delay |-> 0, resourceType |-> r, numUnits |-> n]

\* The two-task cross-request trace: each task acquires "its" resource and
\* then requests the one the other task holds; no delays, no releases.
CrossProg ==
  [t \in Tasks |->
     <<Ins("request", t, 1), Ins("request", IF t = 1 THEN 2 ELSE 1, 1)>>]

VARIABLES
  script,        \* which input trace is loaded: "any" or "cross"
  manager,       \* policy passed to run()
  resources,     \* the keys of the dict resources: the declared resource ids
  totUnits,      \* resource id -> total units (0 for an undeclared id)
  busy,          \* resource id -> busy units
  freeBuffer,    \* resource id -> units to be freed (0 = key absent)
  ic,            \* task id -> index of the current instruction (from 1)
  cur,           \* task id -> current instruction (delay is mutated)
  status,        \* task id -> "active" | "finished" | "aborted"
  waiting,       \* task id -> waiting flag
  held,          \* task id -> resource id -> units held
  claims,        \* task id -> resource id -> declared claim
  waitingTime,   \* task id -> cycles spent waiting
  runningTime,   \* task id -> cycles accounted as running
  endTime,       \* task id -> clock value stamped at completion (-1 = none)
  waitingTasks,  \* OrderedDict of waiting tasks, as the sequence of its keys
  readyTasks,    \* tasks freed from waiting in this cycle
  sysClock,
  pc,            \* position of run(): loop, waitpass, activepass, endtick,
                 \*   resolve, retry, flush, done, crashed
  wq,            \* rest of the list waitingTasks.values() being iterated
  idx,           \* position of the iteration over tasks.values()
  served,        \* the tasks handed to execute so far in this cycle's two
                 \*   passes, in call order (history of the calls at lines
                 \*   238 and 245); empty outside the passes
  ins,           \* run()'s local ins: the instruction read for the latest
                 \*   dispatch of the cycle, with the field values it had
                 \*   when read; dead, and NoIns, once the passes are over
  err            \* exception that ended the program, "none" while running

vars ==
  <<script, manager, resources, totUnits, busy, freeBuffer, ic, cur, status,
    waiting, held, claims, waitingTime, runningTime, endTime, waitingTasks,
    readyTasks, sysClock, pc, wq, idx, served, ins, err>>

\* The mutable part of the engine, tasks and resources as one value, so that
\* the functions of Manager.py compose as they do in the source.
St ==
  [busy |-> busy, freeBuffer |-> freeBuffer, ic |-> ic, cur |-> cur,
   status |-> status, waiting |-> waiting, held |-> held, claims |-> claims,
   waitingTime |-> waitingTime, runningTime |-> runningTime,
   endTime |-> endTime,
   waitingTasks |-> waitingTasks, readyTasks |-> readyTasks, err |-> err]

Commit(s) ==
  /\ busy' = s.busy
  /\ freeBuffer' = s.freeBuffer
  /\ ic' = s.ic
  /\ cur' = s.cur
  /\ status' = s.status
  /\ waiting' = s.waiting
  /\ held' = s.held
  /\ claims' = s.claims
  /\ waitingTime' = s.waitingTime
  /\ runningTime' = s.runningTime
  /\ endTime' = s.endTime
  /\ waitingTasks' = s.waitingTasks
  /\ readyTasks' = s.readyTasks
  /\ err' = s.err

RECURSIVE SumOver(_, _)
SumOver(f, S) ==
  IF S = {} THEN 0
  ELSE LET x == CHOOSE y \in S : TRUE IN f[x] + SumOver(f, S \ {x})

Remove(seq, x) == SelectSeq(seq, LAMBDA y : y # x)

InSeq(seq, x) == \E i \in 1..Len(seq) : seq[i] = x

\* ------------------------------------------------ Resource (spec 3, 4.1)
getNumBusy(s, r) == s.busy[r]

getNumAvailable(s, r) == totUnits[r] - s.busy[r]

getTotUnits(r) == totUnits[r]

\* takeUnits(n): succeeds iff n <= availableUnits
takeUnitsOk(s, r, n) == n <= getNumAvailable(s, r)

takeUnits(s, r, n) ==
  IF takeUnitsOk(s, r, n) THEN [s EXCEPT !.busy[r] = @ + n] ELSE s

\* freeUnits(n): requires n <= busyUnits, a fatal breach otherwise
freeUnits(s, r, n) ==
  IF n <= s.busy[r] THEN [s EXCEPT !.busy[r] = @ - n]
  ELSE [s EXCEPT !.err = "freeUnits"]

\* ------------------------------------------------------ Task (spec 3, 4.2)
isActive(s, t) == s.status[t] = "active"

isWaiting(s, t) == s.waiting[t]

taskIsFinished(s, t) == s.status[t] = "finished"

wait(s, t) == [s EXCEPT !.waiting[t] = TRUE]

stopWaiting(s, t) == [s EXCEPT !.waiting[t] = FALSE]

grantResource(s, t, r, n) == [s EXCEPT !.held[t][r] = @ + n]

\* release(resourceId, n) keeps heldUnits non-negative: releasing more than
\* held is the fatal invariant violation of spec section 7
releaseResource(s, t, r, n) ==
  IF n <= s.held[t][r] THEN [s EXCEPT !.held[t][r] = @ - n]
  ELSE [s EXCEPT !.err = "releaseResource"]

getAllResources(s, t) == s.held[t]

\* abort(): flips the status and clears heldUnits
abort(s, t) ==
  [s EXCEPT !.status[t] = "aborted", !.held[t] = [r \in ResourceIds |-> 0]]

setClaims(s, t, r, n) == [s EXCEPT !.claims[t][r] = n]

\* advance(): increments the program counter; Finished when exhausted (fin).
\* The instruction at the new position has not been read yet.  It is the
\* only call execute makes on a task it leaves not Waiting, so the cycle is
\* accounted as running here (per-cycle accounting of spec section 4.2).
incInstruction(s, t, fin) ==
  IF fin
    THEN [s EXCEPT !.ic[t] = @ + 1, !.cur[t] = NoIns, !.status[t] = "finished",
                   !.runningTime[t] = @ + 1]
    ELSE [s EXCEPT !.ic[t] = @ + 1, !.cur[t] = NoIns, !.runningTime[t] = @ + 1]

incWaitingTime(s, t) == [s EXCEPT !.waitingTime[t] = @ + 1]

clockEndTime(s, t, clock) == [s EXCEPT !.endTime[t] = clock]

\* --------------------------------------------------------------- Manager
\* Manager.py:54-59
isFinished(s) == \A t \in Tasks : ~isActive(s, t)

\* Manager.py:62-70
isDeadlocked(s) ==
  /\ \A t \in Tasks : ~(isActive(s, t) /\ ~isWaiting(s, t))
  /\ ~isFinished(s)

\* Manager.py:73-78 (the stub)
isSafe(s, t, instruction) == TRUE

\* getLowestDeadlockedTask returning the last Active and Waiting task of
\* the scan instead of the first
getLowestDeadlockedTask_Last(s) ==
  LET c == {t \in Tasks : isWaiting(s, t) /\ isActive(s, t)}
  IN IF c = {} THEN 0 ELSE CHOOSE t \in c : \A u \in c : t >= u

\* Manager.py:81-89; 0 stands for None
getLowestDeadlockedTask(s) ==
  LET c == {t \in Tasks : isWaiting(s, t) /\ isActive(s, t)}
  IN IF c = {} THEN 0 ELSE CHOOSE t \in c : \A u \in c : t <= u

\* Manager.py:119-125
placeIntoFreeBuffer(s, r, n) == [s EXCEPT !.freeBuffer[r] = @ + n]

\* Manager.py:131-133, the loop of cleanFreeBuffer over the keys of the
\* buffer; an exception of freeUnits ends it
RECURSIVE cleanKeys(_, _)
cleanKeys(s, keys) ==
  IF keys = {} THEN s
  ELSE LET r == CHOOSE k \in keys : \A j \in keys : k <= j
           s1 == freeUnits(s, r, s.freeBuffer[r])
       IN IF s1.err # "none" THEN s1
          ELSE cleanKeys([s1 EXCEPT !.freeBuffer[r] = 0], keys \ {r})

\* cleanFreeBuffer without "del freeBuffer[rID]": the entries stay and are
\* freed again at the next flush
cleanFreeBuffer_KeepEntries(s) ==
  LET s1 == cleanKeys(s, {r \in ResourceIds : s.freeBuffer[r] > 0})
  IN [s1 EXCEPT !.freeBuffer = s.freeBuffer]

\* Manager.py:128-133
cleanFreeBuffer(s) == cleanKeys(s, {r \in ResourceIds : s.freeBuffer[r] > 0})

\* standardRequest comparing with < instead of <=
standardRequest_Strict(s, t, instruction) ==
  IF instruction.delay > 0 THEN [s EXCEPT !.cur[t].delay = @ - 1]
  ELSE IF instruction.resourceType \notin resources
    THEN [s EXCEPT !.err = "KeyError"]
  ELSE
    LET r == instruction.resourceType
        n == instruction.numUnits
    IN IF n < getNumAvailable(s, r)
         THEN LET s1 == stopWaiting(s, t)
                  s2 == [s1 EXCEPT !.readyTasks = @ \cup {t},
                                   !.waitingTasks = Remove(@, t)]
              IN IF takeUnitsOk(s2, r, n)
                   THEN grantResource(takeUnits(s2, r, n), t, r, n)
                   ELSE s2
         ELSE LET s1 == wait(s, t)
              IN IF InSeq(s1.waitingTasks, t) THEN s1
                 ELSE [s1 EXCEPT !.waitingTasks = Append(@, t)]

\* standardRequest without "del waitingTasks[task.getID()]" on a grant
standardRequest_KeepQueued(s, t, instruction) ==
  IF instruction.delay > 0 THEN [s EXCEPT !.cur[t].delay = @ - 1]
  ELSE IF instruction.resourceType \notin resources
    THEN [s EXCEPT !.err = "KeyError"]
  ELSE
    LET r == instruction.resourceType
        n == instruction.numUnits
    IN IF n <= getNumAvailable(s, r)
         THEN LET s1 == stopWaiting(s, t)
                  s2 == [s1 EXCEPT !.readyTasks = @ \cup {t}]
              IN IF takeUnitsOk(s2, r, n)
                   THEN grantResource(takeUnits(s2, r, n), t, r, n)
                   ELSE s2
         ELSE LET s1 == wait(s, t)
              IN IF InSeq(s1.waitingTasks, t) THEN s1
                 ELSE [s1 EXCEPT !.waitingTasks = Append(@, t)]

\* standardRequest without readyTasks.append(task)
standardRequest_NoReady(s, t, instruction) ==
  IF instruction.delay > 0 THEN [s EXCEPT !.cur[t].delay = @ - 1]
  ELSE IF instruction.resourceType \notin resources
    THEN [s EXCEPT !.err = "KeyError"]
  ELSE
    LET r == instruction.resourceType
        n == instruction.numUnits
    IN IF n <= getNumAvailable(s, r)
         THEN LET s1 == stopWaiting(s, t)
                  s2 == [s1 EXCEPT !.waitingTasks = Remove(@, t)]
              IN IF takeUnitsOk(s2, r, n)
                   THEN grantResource(takeUnits(s2, r, n), t, r, n)
                   ELSE s2
         ELSE LET s1 == wait(s, t)
              IN IF InSeq(s1.waitingTasks, t) THEN s1
                 ELSE [s1 EXCEPT !.waitingTasks = Append(@, t)]

\* standardRequest with waitingTasks a plain dict instead of an OrderedDict:
\* its values are listed in ascending task id, not in insertion order
standardRequest_PlainDict(s, t, instruction) ==
  IF instruction.delay > 0 THEN [s EXCEPT !.cur[t].delay = @ - 1]
  ELSE IF instruction.resourceType \notin resources
    THEN [s EXCEPT !.err = "KeyError"]
  ELSE
    LET r == instruction.resourceType
        n == instruction.numUnits
    IN IF n <= getNumAvailable(s, r)
         THEN LET s1 == stopWaiting(s, t)
                  s2 == [s1 EXCEPT !.readyTasks = @ \cup {t},
                                   !.waitingTasks = Remove(@, t)]
              IN IF takeUnitsOk(s2, r, n)
                   THEN grantResource(takeUnits(s2, r, n), t, r, n)
                   ELSE s2
         ELSE LET s1 == wait(s, t)
              IN IF InSeq(s1.waitingTasks, t) THEN s1
                 ELSE [s1 EXCEPT !.waitingTasks =
                         SelectSeq(@, LAMBDA u : u < t) \o <<t>>
                           \o SelectSeq(@, LAMBDA u : u > t)]

\* Manager.py:136-163
standardRequest(s, t, instruction) ==
  IF instruction.delay > 0 THEN [s EXCEPT !.cur[t].delay = @ - 1]
  ELSE IF instruction.resourceType \notin resources
    THEN [s EXCEPT !.err = "KeyError"]
  ELSE
    LET r == instruction.resourceType
        n == instruction.numUnits
    IN IF n <= getNumAvailable(s, r)
         THEN LET s1 == stopWaiting(s, t)
                  s2 == [s1 EXCEPT !.readyTasks = @ \cup {t},
                                   !.waitingTasks = Remove(@, t)]
              IN IF takeUnitsOk(s2, r, n)
                   THEN grantResource(takeUnits(s2, r, n), t, r, n)
                   ELSE s2
         ELSE LET s1 == wait(s, t)
              IN IF InSeq(s1.waitingTasks, t) THEN s1
                 ELSE [s1 EXCEPT !.waitingTasks = Append(@, t)]

\* Manager.py:166-176
bankerRequest(s, t, instruction) ==
  IF isSafe(s, t, instruction) THEN standardRequest(s, t, instruction)
  ELSE LET s1 == wait(s, t)
       IN IF InSeq(s1.waitingTasks, t) THEN s1
          ELSE [s1 EXCEPT !.waitingTasks = Append(@, t)]

\* Manager.py:179-191
bankerProcessClaims(s, t, instruction) ==
  IF instruction.resourceType \notin resources
     \/ instruction.numUnits > getTotUnits(instruction.resourceType)
    THEN abort(s, t)
    ELSE setClaims(s, t, instruction.resourceType, instruction.numUnits)

\* The release branch freeing the units at once instead of buffering them
executeRelease_Immediate(s, t, instruction) ==
  LET r == instruction.resourceType
      n == instruction.numUnits
  IN IF r \notin resources THEN [s EXCEPT !.err = "KeyError"]
     ELSE IF n <= getNumBusy(s, r)
       THEN releaseResource(freeUnits(s, r, n), t, r, n)
       ELSE s

\* Manager.py:210-216, the release branch of execute
executeRelease(s, t, instruction) ==
  LET r == instruction.resourceType
      n == instruction.numUnits
  IN IF r \notin resources THEN [s EXCEPT !.err = "KeyError"]
     ELSE IF n <= getNumBusy(s, r)
       THEN releaseResource(placeIntoFreeBuffer(s, r, n), t, r, n)
       ELSE s

\* The tail of execute without the stamp of the end time
executeTail_NoStamp(s, t, fin) ==
  IF ~isWaiting(s, t) THEN incInstruction(s, t, fin) ELSE incWaitingTime(s, t)

\* Manager.py:219-225, the tail of execute
executeTail(s, t, fin) ==
  IF ~isWaiting(s, t)
    THEN LET s1 == incInstruction(s, t, fin)
         IN IF taskIsFinished(s1, t) THEN clockEndTime(s1, t, sysClock) ELSE s1
    ELSE incWaitingTime(s, t)

\* Manager.py:194-225
execute(s, t, fin) ==
  LET instruction == s.cur[t] IN
  IF instruction.delay > 0 THEN [s EXCEPT !.cur[t] = Pending(instruction.delay - 1)]
  ELSE
    LET s1 == IF instruction.command = "initiate" /\ manager = BANKER
                THEN bankerProcessClaims(s, t, instruction) ELSE s
        s2 == IF instruction.command = "request"
                THEN IF manager = OPTIMISTIC THEN standardRequest(s1, t, instruction)
                     ELSE IF manager = BANKER THEN bankerRequest(s1, t, instruction)
                     ELSE s1
                ELSE IF instruction.command = "release" THEN executeRelease(s1, t, instruction)
                ELSE s1
    IN IF s2.err # "none" THEN s2 ELSE executeTail(s2, t, fin)

\* Manager.py:102-103, the loop placing the victim's units in the buffer
RECURSIVE placeAll(_, _, _)
placeAll(s, h, keys) ==
  IF keys = {} THEN s
  ELSE LET r == CHOOSE k \in keys : \A j \in keys : k <= j
       IN placeAll(placeIntoFreeBuffer(s, r, h[r]), h, keys \ {r})

\* Manager.py:98-108, one abort of resolveDeadlock
resolveAbort(s) ==
  LET t == getLowestDeadlockedTask(s)
      s1 == placeAll(s, getAllResources(s, t), ResourceIds)
      s2 == [s1 EXCEPT !.waitingTasks = Remove(@, t)]
  IN cleanFreeBuffer(abort(s2, t))

\* The instructions the input may hold at position i of task t's program
Fetch(t, i) == IF script = "cross" THEN {CrossProg[t][i]} ELSE Instr

\* Whether task t's program may end at position i
Ends(t, i) ==
  IF script = "cross" THEN {i = Len(CrossProg[t])}
  ELSE IF i >= MaxLen THEN {TRUE} ELSE BOOLEAN

\* task.getCurrentInstruction(): the instruction at the program counter,
\* read from the input when the position is reached for the first time
getCurrentInstruction(t) ==
  IF cur[t] = NoIns THEN Fetch(t, ic[t])
  ELSE IF cur[t].command = "pending" /\ cur[t].delay = 0
    THEN {i \in Fetch(t, ic[t]) : i.delay = 0}
  ELSE {cur[t]}

\* What run() sees of the instruction it reads: of a delayed instruction
\* only the delay is inspected
Seen(instruction) ==
  IF instruction.delay > 0 THEN Pending(instruction.delay) ELSE instruction

\* The same read where the whole instruction is inspected at once
\* (Manager.py:112-113)
getWholeInstruction(t) ==
  IF cur[t] = NoIns THEN Fetch(t, ic[t])
  ELSE IF cur[t].command = "pending"
    THEN {i \in Fetch(t, ic[t]) : i.delay = cur[t].delay}
  ELSE {cur[t]}

\* The state with the instruction just read in place
Read(s, t, instruction) == [s EXCEPT !.cur[t] = instruction]

Zero == [r \in ResourceIds |-> 0]

\* parseInputData (Manager.py:33-51) and the module-level initial values
\* (Manager.py:10-23)
Init ==
  /\ \/ /\ script = "any"
        /\ manager \in {OPTIMISTIC, BANKER}
        /\ \E k \in 1..(IF manager = BANKER THEN BankerResources ELSE NumResources) :
             resources = 1..k
        /\ totUnits \in [ResourceIds -> 0..MaxTotal]
        /\ \A r \in ResourceIds : totUnits[r] = 0 <=> r \notin resources
     \/ /\ script = "cross"
        /\ manager = OPTIMISTIC
        /\ resources = {1, 2}
        /\ totUnits = [r \in ResourceIds |-> IF r \in resources THEN 1 ELSE 0]
  /\ cur = [t \in Tasks |-> NoIns]
  /\ busy = Zero
  /\ freeBuffer = Zero
  /\ ic = [t \in Tasks |-> 1]
  /\ status = [t \in Tasks |-> "active"]
  /\ waiting = [t \in Tasks |-> FALSE]
  /\ held = [t \in Tasks |-> Zero]
  /\ claims = [t \in Tasks |-> Zero]
  /\ waitingTime = [t \in Tasks |-> 0]
  /\ runningTime = [t \in Tasks |-> 0]
  /\ endTime = [t \in Tasks |-> -1]
  /\ waitingTasks = <<>>
  /\ readyTasks = {}
  /\ sysClock = 0
  /\ pc = "loop"
  /\ wq = <<>>
  /\ idx = 1
  /\ served = <<>>
  /\ ins = NoIns
  /\ err = "none"

Fixed == <<script, manager, resources, totUnits>>

\* The effect of a dispatch on the variables; an exception ends the program
Dispatch(s, next) ==
  /\ Commit(s)
  /\ pc' = IF s.err # "none" THEN "crashed" ELSE next

\* Manager.py:231-235: the loop test and the snapshot of the wait queue
LoopHead ==
  /\ pc = "loop"
  /\ IF isFinished(St) THEN pc' = "done" /\ wq' = wq
     ELSE /\ wq' = waitingTasks
          /\ pc' = IF waitingTasks = <<>> THEN "activepass" ELSE "waitpass"
  /\ idx' = 1
  /\ UNCHANGED <<Fixed, busy, freeBuffer, ic, cur, status, waiting, held,
                 claims, waitingTime, runningTime, endTime, waitingTasks,
                 readyTasks, sysClock, served, ins, err>>

\* Manager.py:235-238: one iteration of the pass over the waiting tasks
WaitPass ==
  /\ pc = "waitpass"
  /\ wq # <<>>
  /\ LET t == Head(wq) IN
       IF isActive(St, t)
         THEN \E i \in getCurrentInstruction(t), fin \in Ends(t, ic[t]) :
                /\ ins' = Seen(i)
                /\ served' = Append(served, t)
                /\ Dispatch(execute(Read(St, t, i), t, fin),
                            IF Tail(wq) = <<>> THEN "activepass" ELSE "waitpass")
         ELSE /\ ins' = ins
              /\ served' = served
              /\ Dispatch(St, IF Tail(wq) = <<>> THEN "activepass" ELSE "waitpass")
  /\ wq' = Tail(wq)
  /\ idx' = 1
  /\ UNCHANGED <<Fixed, sysClock>>

\* Manager.py:241-245: one iteration of the pass over all tasks
ActivePass ==
  /\ pc = "activepass"
  /\ idx \in Tasks
  /\ LET t == idx IN
       IF isActive(St, t) /\ ~isWaiting(St, t) /\ t \notin readyTasks
         THEN \E i \in getCurrentInstruction(t), fin \in Ends(t, ic[t]) :
                /\ ins' = Seen(i)
                /\ served' = Append(served, t)
                /\ Dispatch(execute(Read(St, t, i), t, fin),
                            IF idx + 1 \in Tasks THEN "activepass" ELSE "endtick")
         ELSE /\ ins' = ins
              /\ served' = served
              /\ Dispatch(St, IF idx + 1 \in Tasks THEN "activepass" ELSE "endtick")
  /\ idx' = idx + 1
  /\ UNCHANGED <<Fixed, sysClock, wq>>

\* Manager.py:247-251: reset of readyTasks and the deadlock test
EndTick ==
  /\ pc = "endtick"
  /\ readyTasks' = {}
  /\ ins' = NoIns
  /\ served' = <<>>
  /\ pc' = IF manager = OPTIMISTIC /\ isDeadlocked(St) THEN "resolve" ELSE "flush"
  /\ UNCHANGED <<Fixed, busy, freeBuffer, ic, cur, status, waiting, held,
                 claims, waitingTime, runningTime, endTime, waitingTasks,
                 sysClock, wq, idx, err>>

\* Manager.py:97-108: a loop iteration of resolveDeadlock up to the flush
ResolveIter ==
  /\ pc = "resolve"
  /\ isDeadlocked(St)
  /\ LET s == resolveAbort(St)
     IN /\ Commit(s)
        /\ pc' = IF s.err # "none" THEN "crashed" ELSE "retry"
  /\ idx' = 1
  /\ UNCHANGED <<Fixed, sysClock, wq, served, ins>>

\* Manager.py:97: resolveDeadlock returns when the deadlock is gone
ResolveReturn ==
  /\ pc = "resolve"
  /\ ~isDeadlocked(St)
  /\ pc' = "flush"
  /\ UNCHANGED <<Fixed, busy, freeBuffer, ic, cur, status, waiting, held,
                 claims, waitingTime, runningTime, endTime, waitingTasks,
                 readyTasks, sysClock, wq, idx, served, ins, err>>

\* Manager.py:110-116: one iteration of the retry loop.  optimisticRequest
\* is defined nowhere in Manager.py and is not imported, so the call at
\* line 114 raises NameError.
Retry ==
  /\ pc = "retry"
  /\ idx \in Tasks
  /\ LET t == idx IN
       IF isActive(St, t)
         THEN \E i \in getWholeInstruction(t) :
                /\ cur' = [cur EXCEPT ![t] = i]
                /\ IF i.command = "request"
                     THEN err' = "NameError" /\ pc' = "crashed"
                     ELSE /\ err' = err
                          /\ pc' = IF idx + 1 \in Tasks THEN "retry" ELSE "resolve"
         ELSE /\ err' = err
              /\ cur' = cur
              /\ pc' = IF idx + 1 \in Tasks THEN "retry" ELSE "resolve"
  /\ idx' = idx + 1
  /\ UNCHANGED <<Fixed, busy, freeBuffer, ic, status, waiting, held,
                 claims, waitingTime, runningTime, endTime, waitingTasks,
                 readyTasks, sysClock, wq, served, ins>>

\* Manager.py:253-254: the end-of-cycle flush and the clock
Flush ==
  /\ pc = "flush"
  /\ sysClock < MaxClock
  /\ LET s == cleanFreeBuffer(St)
     IN /\ Commit(s)
        /\ pc' = IF s.err # "none" THEN "crashed" ELSE "loop"
  /\ sysClock' = sysClock + 1
  /\ UNCHANGED <<Fixed, wq, idx, served, ins>>

Next ==
  \/ LoopHead
  \/ WaitPass
  \/ ActivePass
  \/ EndTick
  \/ ResolveIter
  \/ ResolveReturn
  \/ Retry
  \/ Flush

Spec == Init /\ [][Next]_vars

\* ------------------------------------------------------------ properties
HeldSum(r) == SumOver([t \in Tasks |-> held[t][r]], Tasks)

\* The task whose current instruction the next step of a pass hands to
\* execute (Manager.py:236-238 and 242-245)
Dispatched(t) ==
  \/ pc = "waitpass" /\ wq # <<>> /\ Head(wq) = t /\ status[t] = "active"
  \/ /\ pc = "activepass" /\ idx = t
     /\ status[t] = "active" /\ ~waiting[t] /\ t \notin readyTasks

\* C1: at every tick boundary (free buffer flushed, clock advanced, run() back
\* at its loop test) the busy units of every resource equal the sum of the
\* units held by all tasks, under either policy.
C1_BusyEqualsHeldAtTick ==
  pc = "loop" => \A r \in ResourceIds : busy[r] = HeldSum(r)

\* C2: in every reachable state 0 <= busyUnits <= totalUnits for every
\* resource, and no flush of the free buffer frees more units than are busy
\* (freeUnits never meets its fatal precondition breach).
C2_BusyWithinTotal ==
  /\ \A r \in ResourceIds : 0 <= busy[r] /\ busy[r] <= totUnits[r]
  /\ err # "freeUnits"

\* A resource granted up to its total, a request for it blocked, and released
\* units of it pending in the free buffer
C2_Witness ==
  \E r \in resources, t \in Tasks :
    /\ busy[r] = totUnits[r]
    /\ freeBuffer[r] > 0
    /\ status[t] = "active" /\ waiting[t]
    /\ cur[t].command = "request" /\ cur[t].resourceType = r

RECURSIVE CanAllFinish(_, _, _, _)
CanAllFinish(work, left, h, c) ==
  IF left = {} THEN TRUE
  ELSE LET ok == {t \in left : \A r \in resources : c[t][r] - h[t][r] <= work[r]}
       IN IF ok = {} THEN FALSE
          ELSE LET t == CHOOSE u \in ok : TRUE
               IN CanAllFinish([r \in ResourceIds |-> work[r] + h[t][r]],
                               left \ {t}, h, c)

BankerSafeState(b, h, c, st) ==
  CanAllFinish([r \in ResourceIds |-> totUnits[r] - b[r]],
               {t \in Tasks : st[t] = "active"}, h, c)

\* Every task's held units plus its pending request stay within its declared
\* claim, and every claim within the resource's total
HonestClaims ==
  \A t \in Tasks, r \in resources :
    /\ claims[t][r] <= totUnits[r]
    /\ held[t][r] <= claims[t][r]
    /\ (status[t] = "active" /\ cur[t].command = "request"
        /\ cur[t].resourceType = r)
         => held[t][r] + cur[t].numUnits <= claims[t][r]

\* C6: in every reachable state a Finished or Aborted task holds zero units
\* of every resource.
C6_TerminalTasksHoldNothing ==
  \A t \in Tasks :
    status[t] \in {"finished", "aborted"} =>
      \A r \in ResourceIds : held[t][r] = 0

\* C4: under the Banker policy no unsafe grant occurs: whenever a step grants
\* units to a task, the state after the grant passes the safety scan.  It is
\* stated for the grants that leave the claims honest and no terminated task
\* with units, where only isSafe decides it.
C4_NoUnsafeGrant ==
  [][(/\ manager = BANKER
      /\ \E t \in Tasks, r \in ResourceIds : held'[t][r] > held[t][r]
      /\ HonestClaims' /\ C6_TerminalTasksHoldNothing')
     => BankerSafeState(busy', held', claims', status')]_vars

\* C5: under the Banker policy with honest claims the system is never, at the
\* end of a tick's dispatch passes, in a state where some task is Active and
\* every Active task is Waiting.  It is stated for the states where no
\* terminated task keeps units, every busy unit is held by a task and no
\* unit is pending in the free buffer: there the Waiting tasks can only be
\* blocked by units that other Waiting tasks hold, which safe grants exclude.
C5_BankerNeverDeadlocks ==
  (/\ manager = BANKER /\ pc = "endtick"
   /\ HonestClaims /\ C6_TerminalTasksHoldNothing
   /\ \A r \in ResourceIds : busy[r] = HeldSum(r) /\ freeBuffer[r] = 0)
    => ~isDeadlocked(St)

\* C7: under the optimistic policy every invocation of deadlock resolution
\* terminates by returning, each iteration strictly shrinks the set of Active
\* and Waiting tasks, and when it has returned (run() is at its flush) the
\* system is not deadlocked.  Stated on states: resolution never ends in an
\* exception, and run() never reaches its flush deadlocked.
C7_ResolutionReturnsUndeadlocked ==
  manager = OPTIMISTIC =>
    /\ ~(pc = "crashed" /\ err = "NameError")
    /\ pc = "flush" => ~isDeadlocked(St)

\* C8: the optimistic run of the cross-request trace (2 resources of 1 unit,
\* 2 tasks, each acquiring one resource and then requesting the other's)
\* ends with task 1 Aborted and task 2 Finished.
C8_CrossScenarioOutcome ==
  (script = "cross" /\ pc \in {"done", "crashed"}) =>
    status[1] = "aborted" /\ status[2] = "finished"

\* C9: under the optimistic policy a request dispatched with delay 0 (for a
\* declared resource) is granted iff numUnits <= availableUnits at dispatch
\* time: then busyUnits and the task's heldUnits both grow by numUnits, the
\* task is not Waiting and its program counter advances; otherwise no units
\* move, the task is Waiting and its program counter stays.
C9_OptimisticGrantIff ==
  [][\A t \in Tasks :
       (/\ manager = OPTIMISTIC /\ Dispatched(t)
        /\ ins'.command = "request" /\ ins'.delay = 0
        /\ ins'.resourceType \in resources)
       => LET r == ins'.resourceType
              n == ins'.numUnits
          IN IF n <= totUnits[r] - busy[r]
               THEN /\ busy' = [busy EXCEPT ![r] = @ + n]
                    /\ held' = [held EXCEPT ![t][r] = @ + n]
                    /\ ~waiting'[t]
                    /\ ic'[t] = ic[t] + 1
               ELSE /\ busy' = busy
                    /\ held' = held
                    /\ freeBuffer' = freeBuffer
                    /\ waiting'[t]
                    /\ ic'[t] = ic[t]]_vars

\* Task 2 has just been dispatched a delay-0 request and blocked on a
\* resource of which task 1 was granted units, under the optimistic policy
C9_Witness ==
  /\ manager = OPTIMISTIC
  /\ pc = "endtick"
  /\ ins.command = "request" /\ ins.delay = 0
  /\ waiting[2] /\ status[2] = "active" /\ cur[2] = ins
  /\ held[1][ins.resourceType] > 0
  /\ ic[1] > 1

\* C10: a release takes effect only if the issuing task holds at least
\* numUnits of the resource; when it holds fewer the release stalls: nothing
\* enters the free buffer, heldUnits are unchanged and the program counter
\* does not advance.
C10_ShortReleaseStalls ==
  [][\A t \in Tasks :
       (/\ Dispatched(t)
        /\ ins'.command = "release" /\ ins'.delay = 0
        /\ ins'.resourceType \in resources
        /\ held[t][ins'.resourceType] < ins'.numUnits)
       => /\ freeBuffer' = freeBuffer
          /\ held' = held
          /\ ic'[t] = ic[t]]_vars

\* C11: under the Banker policy an initiate dispatched with delay 0 that
\* names an undeclared resource or claims more than the resource's total
\* leaves the issuing task Aborted at the end of that dispatch, and changes
\* no other task's status, held units, claims or program counter and no
\* resource's busy units.
C11_InfeasibleClaimAborts ==
  [][\A t \in Tasks :
       (/\ manager = BANKER /\ Dispatched(t)
        /\ ins'.command = "initiate" /\ ins'.delay = 0
        /\ \/ ins'.resourceType \notin resources
           \/ ins'.numUnits > totUnits[ins'.resourceType])
       => /\ status'[t] = "aborted"
          /\ busy' = busy
          /\ \A u \in Tasks \ {t} :
               /\ status'[u] = status[u]
               /\ held'[u] = held[u]
               /\ claims'[u] = claims[u]
               /\ ic'[u] = ic[u]]_vars

\* C12: for every Finished task, runningTime + waitingTime equals its
\* completion tick (the clock value stamped when it finished; creation is
\* tick 0).
C12_StatsSumToCompletionTick ==
  \A t \in Tasks :
    status[t] = "finished" => runningTime[t] + waitingTime[t] = endTime[t]

\* C13: each iteration of deadlock resolution aborts exactly one task, the
\* one with the smallest id among the Active and Waiting tasks; after the
\* iteration's flush the victim is not in the wait queue and every
\* resource's busy units have decreased by exactly the units the victim held
\* plus the units that were pending in the free buffer.
C13_ResolutionAbortsLowest ==
  [][(pc = "resolve" /\ isDeadlocked(St))
     => \E v \in Tasks :
          /\ status[v] = "active" /\ waiting[v]
          /\ \A u \in Tasks : (status[u] = "active" /\ waiting[u]) => v <= u
          /\ status' = [status EXCEPT ![v] = "aborted"]
          /\ ~InSeq(waitingTasks', v)
          /\ \A r \in ResourceIds :
               /\ busy'[r] = busy[r] - held[v][r] - freeBuffer[r]
               /\ freeBuffer'[r] = 0]_vars

\* An iteration has just aborted a task and flushed, and another task is
\* still Active and Waiting on a request that the reclaimed units now cover
C13_Witness ==
  /\ pc = "retry" /\ idx = 1
  /\ \E v \in Tasks, u \in Tasks :
       /\ status[v] = "aborted" /\ v < u
       /\ status[u] = "active" /\ waiting[u]
       /\ cur[u].command = "request"
       /\ cur[u].resourceType \in resources
       /\ cur[u].numUnits <= totUnits[cur[u].resourceType] - busy[cur[u].resourceType]

\* C14: after an abort in deadlock resolution, the retry of an Active task
\* whose current instruction is a request completes and is decided against
\* the flushed availability: if the units fit, the task leaves the wait
\* queue, is not Waiting and its program counter advances by one; otherwise
\* it stays Waiting with its program counter unchanged.
C14_RetryAfterAbort ==
  [][\A t \in Tasks :
       (/\ pc = "retry" /\ idx = t /\ status[t] = "active"
        /\ cur'[t].command = "request"
        /\ cur'[t].resourceType \in resources)
       => /\ pc' # "crashed"
          /\ IF cur'[t].numUnits
                  <= totUnits[cur'[t].resourceType] - busy[cur'[t].resourceType]
               THEN /\ ~waiting'[t]
                    /\ ~InSeq(waitingTasks', t)
                    /\ ic'[t] = ic[t] + 1
               ELSE /\ waiting'[t]
                    /\ ic'[t] = ic[t]]_vars

\* Position of x in a sequence that holds it
Pos(seq, x) == CHOOSE k \in 1..Len(seq) : seq[k] = x

\* C15: (a) the waiting pass of a tick covers exactly the tasks that are
\* Active and Waiting at the start of the tick, in wait-queue order; (b) a
\* task is handed to execute only as the head of what is left of that pass,
\* so no other task is dispatched before the pass is over; (c) the wait queue
\* is FIFO: a task that enters it is placed behind all tasks already in it
\* and the tasks that stay keep their order, so the queue order is the order
\* of most recent entry.
C15_WaitingFirstFifo ==
  [][/\ (pc = "loop" /\ pc' # "done")
          => /\ wq' = waitingTasks
             /\ \A t \in Tasks :
                  (status[t] = "active" /\ waiting[t]) <=> InSeq(wq', t)
             /\ \A j, k \in 1..Len(wq') : wq'[j] = wq'[k] => j = k
     /\ \A t \in Tasks :
          (served' = Append(served, t) /\ wq # <<>>)
            => t = Head(wq) /\ wq' = Tail(wq)
     /\ (served' # served /\ served' # <<>>)
          => \E t \in Tasks : served' = Append(served, t)
     /\ \A j, k \in 1..Len(waitingTasks') :
          (j < k /\ InSeq(waitingTasks, waitingTasks'[k]))
            => /\ InSeq(waitingTasks, waitingTasks'[j])
               /\ Pos(waitingTasks, waitingTasks'[j])
                    < Pos(waitingTasks, waitingTasks'[k])]_vars

\* Task 2 blocked before task 1 did; in the waiting pass of a later tick it
\* has been dispatched first and task 1 is next
C15_Witness ==
  /\ pc = "waitpass"
  /\ served = <<2>>
  /\ wq = <<1>>
  /\ waitingTasks = <<2, 1>>

\* C16: in the two dispatch passes of a tick no task is handed to execute
\* more than once; a task unblocked in the waiting pass is not dispatched
\* again in the active pass of that tick.
C16_DispatchedAtMostOnce ==
  \A j, k \in 1..Len(served) : served[j] = served[k] => j = k

\* Both passes of a tick are over; task 2 was unblocked in the waiting pass
\* and the active pass, which dispatched task 1, passed over it
C16_Witness ==
  /\ pc = "endtick"
  /\ readyTasks = {2}
  /\ served = <<2, 1>>
  /\ status[2] = "active" /\ ~waiting[2]

\* C17: in every tick every task that is Active is dispatched in one of the
\* two passes (when the passes are over, every task still Active has been
\* handed to execute), and a dispatch that completes accounts the task
\* exactly once: as waiting if the task is Waiting at the end of the
\* dispatch, as running otherwise; outside its dispatch a task's counters do
\* not change.
C17_AccountedOncePerTick ==
  [][/\ pc' = "endtick"
          => \A t \in Tasks : status'[t] = "active" => InSeq(served', t)
     /\ \A t \in Tasks :
          IF served' = Append(served, t) /\ err' = "none"
            THEN IF waiting'[t]
                   THEN /\ waitingTime'[t] = waitingTime[t] + 1
                        /\ runningTime'[t] = runningTime[t]
                   ELSE /\ runningTime'[t] = runningTime[t] + 1
                        /\ waitingTime'[t] = waitingTime[t]
            ELSE /\ waitingTime'[t] = waitingTime[t]
                 /\ runningTime'[t] = runningTime[t]]_vars

\* The number of instructions of task t's program, where the input fixes it
\* (a program of the explored inputs has at most MaxLen instructions)
LastIndex(t) == IF script = "cross" THEN Len(CrossProg[t]) ELSE MaxLen

C19_OptimisticRunsToCompletion ==
  (/\ manager = OPTIMISTIC
   /\ ~ENABLED Next
   /\ sysClock < MaxClock
   /\ err \notin {"KeyError", "releaseResource", "freeUnits"})
    => \A t \in Tasks : status[t] \in {"finished", "aborted"}

\* C20: at every tick boundary (run() at its loop test) the wait queue holds
\* exactly the tasks that are Active and Waiting, each once, and the current
\* instruction of each of them is a request with delay 0; and in no state is
\* a Finished or Aborted task in the wait queue.
C20_WaitQueueExact ==
  /\ \A j \in 1..Len(waitingTasks) : status[waitingTasks[j]] = "active"
  /\ pc = "loop" =>
       /\ \A t \in Tasks :
            InSeq(waitingTasks, t) <=> (status[t] = "active" /\ waiting[t])
       /\ \A j, k \in 1..Len(waitingTasks) :
            waitingTasks[j] = waitingTasks[k] => j = k
       /\ \A j \in 1..Len(waitingTasks) :
            /\ cur[waitingTasks[j]].command = "request"
            /\ cur[waitingTasks[j]].delay = 0

\* A tick boundary at which task 2 has been queued for two ticks, blocked on
\* units that task 1, still Active and not Waiting, holds
C20_Witness ==
  /\ pc = "loop" /\ sysClock = 2
  /\ waitingTasks = <<2>>
  /\ waiting[2] /\ waitingTime[2] = 2
  /\ status[1] = "active" /\ ~waiting[1]
  /\ held[1][cur[2].resourceType] > 0
====
